---------------------------- MODULE Spec2Model ----------------------------
(***************************************************************************)
(* The crossword constraint solver of src/crossword/generate.py            *)
(* (CrosswordCreator): node consistency, AC-3, the ordering heuristics and *)
(* the recursive backtracking search, as a state machine.                  *)
(*                                                                         *)
(* Python objects are modelled with their identity: every variable's       *)
(* domain is one set object on the heap, and a dict (self.domains, a       *)
(* frame's domains_copy) maps variables to references of set objects.      *)
(* Iteration orders of Python sets are not fixed by the program (string    *)
(* hashes differ from process to process), so every such order is a        *)
(* nondeterministic choice.                                                *)
(***************************************************************************)
EXTENDS Integers, Sequences, FiniteSets, TLC

\* ------------------------------------------------------------------ bounds

\* Largest word list drawn for a run.
MaxWords == 4

\* ------------------------------------------------------------------ inputs

AAA == <<"A", "A", "A">>
ABC == <<"A", "B", "C">>
CBA == <<"C", "B", "A">>
XYZ == <<"X", "Y", "Z">>
CAT == <<"C", "A", "T">>
FROG == <<"F", "R", "O", "G">>
TOAD == <<"T", "O", "A", "D">>
AB == <<"A", "B">>
BA == <<"B", "A">>
AA == <<"A", "A">>

ACROSS == "across"
DOWN == "down"

Var(i, j, direction, length) == [i |-> i, j |-> j, direction |-> direction, length |-> length]

\* One isolated slot of length 4.
PuzzleIsolated == {Var(0, 0, ACROSS, 4)}

\* An ACROSS and a DOWN slot of length 3 sharing the cell (0,0).
PuzzleCross == {Var(0, 0, ACROSS, 3), Var(0, 0, DOWN, 3)}

\* Two ACROSS slots joined by one DOWN slot (a chain of three).
PuzzleChain == {Var(0, 0, ACROSS, 3), Var(0, 0, DOWN, 3), Var(2, 0, ACROSS, 3)}

\* A 2x2 block of cells with one more cell under its left column: two
\* ACROSS slots of length 2, a DOWN slot of length 3 and one of length 2.
PuzzleBlock == {Var(0, 0, ACROSS, 2), Var(1, 0, ACROSS, 2), Var(0, 0, DOWN, 3), Var(0, 1, DOWN, 2)}

Puzzles == {PuzzleIsolated, PuzzleCross, PuzzleChain, PuzzleBlock}

\* The words the word lists of a puzzle are drawn from.
Vocabulary(puzzle) ==
    IF puzzle = PuzzleIsolated THEN {CAT, FROG, TOAD}
    ELSE IF puzzle = PuzzleBlock THEN {AAA, AB, BA, AA}
    ELSE IF puzzle = PuzzleCross THEN {AAA, ABC, CBA, XYZ, FROG}
    ELSE {AAA, ABC, CBA, XYZ, AB}

\* The word lists a puzzle is solved with: non-empty, at most MaxWords words.
WordLists(puzzle) ==
    {ws \in SUBSET Vocabulary(puzzle) : Cardinality(ws) >= 1 /\ Cardinality(ws) <= MaxWords}

\* ------------------------------------------------------------ puzzle model

NoOverlap == <<>>

\* crossword.overlaps[x, y]: the offsets (0-based) of the cell x and y share,
\* in x and in y, or NoOverlap. Slots are maximal runs of open cells, so only
\* an ACROSS and a DOWN slot can share a cell: the one in the row of the
\* ACROSS slot and the column of the DOWN slot.
Overlaps(x, y) ==
    IF x.direction = y.direction THEN NoOverlap
    ELSE LET across == IF x.direction = ACROSS THEN x ELSE y
             down == IF x.direction = ACROSS THEN y ELSE x
             in_across == down.j - across.j
             in_down == across.i - down.i
         IN  IF in_across < 0 \/ in_across >= across.length
                \/ in_down < 0 \/ in_down >= down.length
             THEN NoOverlap
             ELSE IF x.direction = ACROSS THEN <<in_across, in_down>>
             ELSE <<in_down, in_across>>

\* ------------------------------------------------------------------- state

VARIABLES
    variables,   \* crossword.variables
    words,       \* crossword.words
    varOrder,    \* the iteration order of the dict self.domains, <<>> until
                 \* the program first depends on it
    domains,     \* self.domains: variable -> reference of a set object
    heap,        \* reference -> the words of that set object; the reference
                 \* of a set object is the variable it was created for
    pc,          \* the position of the running solve()
    arcs,        \* ac3's worklist (empty while no ac3() is running)
    ac3result,   \* the value ac3() returned
    stack,       \* the frames of backtrack(), innermost last
    arg,         \* the assignment passed to the backtrack() being entered
    retval,      \* the value the last backtrack() returned
    result,      \* the value solve() returned
    fix,         \* history: the store at the last successful ac3(), if untouched since
    run,         \* 1 for the first solve() of an input, 2 for a second one
    first        \* the result of the first solve()

vars == <<variables, words, varOrder, domains, heap, pc, arcs, ac3result, stack,
          arg, retval, result, fix, run, first>>

\* crossword.neighbors(var)
Neighbors(var) == {v \in variables : v # var /\ Overlaps(v, var) # NoOverlap}

\* Optional values: Python's None, or a value.
None == [some |-> FALSE, val |-> <<>>]
Some(a) == [some |-> TRUE, val |-> a]

\* The words of self.domains[v].
Dom(v) == heap[domains[v]]

\* The store by value: variable -> set of words.
Store == [v \in variables |-> heap[domains[v]]]

\* No store recorded.
NoFix == [some |-> FALSE, val |-> [v \in variables |-> {}]]

\* All orders in which a set can be iterated.
RECURSIVE Orders(_)
Orders(S) ==
    IF S = {} THEN {<<>>}
    ELSE UNION {{<<x>> \o rest : rest \in Orders(S \ {x})} : x \in S}

\* An assignment is a dict, kept in insertion order: a sequence of entries.
Entry(v, w) == [var |-> v, word |-> w]
Keys(a) == {a[i].var : i \in 1..Len(a)}
WordOf(a, v) == a[CHOOSE i \in 1..Len(a) : a[i].var = v].word
AsMap(a) == {<<a[i].var, a[i].word>> : i \in 1..Len(a)}


\* -------------------------------------------------- the solver's functions

\* A node consistency that removes every word.
enforce_node_consistency_emptying(var, d) == {}

\* A node consistency that removes nothing.
enforce_node_consistency_keeping(var, d) == d

\* enforce_node_consistency, for one variable: the words of its domain d
\* that survive the length test.
enforce_node_consistency(var, d) == {item \in d : ~(Len(item) # var.length)}

\* The heap after enforce_node_consistency() has filtered every domain.
NodeConsistentHeap ==
    [r \in DOMAIN heap |->
        IF \E var \in variables : domains[var] = r
        THEN enforce_node_consistency(CHOOSE var \in variables : domains[var] = r, heap[r])
        ELSE heap[r]]

\* A revise that removes the words that do have a partner.
revise_inverted(x, y) ==
    LET x_idx == Overlaps(x, y)[1]
        y_idx == Overlaps(x, y)[2]
        possible_letters == {item_y[y_idx + 1] : item_y \in {w \in Dom(y) : Len(w) > y_idx}}
        removable == {item_x \in Dom(x) : Len(item_x) > x_idx /\ item_x[x_idx + 1] \in possible_letters}
    IN  {[dom |-> Dom(x) \ removable, revision |-> removable # {}, raised |-> FALSE]}

\* A revise that puts the whole word list back into the domain.
revise_refilling(x, y) == {[dom |-> words, revision |-> FALSE, raised |-> FALSE]}

\* A revise that removes the words but reports no revision.
revise_unreported(x, y) ==
    LET kept == {item_x \in Dom(x) :
                    \E item_y \in Dom(y) :
                        item_x[Overlaps(x, y)[1] + 1] = item_y[Overlaps(x, y)[2] + 1]}
    IN  {[dom |-> kept, revision |-> FALSE, raised |-> FALSE]}

\* revise(x, y): the outcomes of one call, each a record of the words left
\* in self.domains[x], the value returned and whether an IndexError was
\* raised. Offsets are 0-based as in the source; sequences are 1-based.
revise(x, y) ==
    LET x_idx == Overlaps(x, y)[1]
        y_idx == Overlaps(x, y)[2]
        possible_letters == {item_y[y_idx + 1] : item_y \in {w \in Dom(y) : Len(w) > y_idx}}
        removable == {item_x \in Dom(x) : Len(item_x) > x_idx /\ item_x[x_idx + 1] \notin possible_letters}
    IN  IF \E item_y \in Dom(y) : Len(item_y) <= y_idx
        THEN {[dom |-> Dom(x), revision |-> FALSE, raised |-> TRUE]}
        ELSE IF \E item_x \in Dom(x) : Len(item_x) <= x_idx
        THEN {[dom |-> Dom(x) \ R, revision |-> R # {}, raised |-> TRUE] : R \in SUBSET removable}
        ELSE {[dom |-> Dom(x) \ removable, revision |-> removable # {}, raised |-> FALSE]}

\* ac3, arcs is None: every ordered pair of neighbours.
AllArcs == {a \in variables \X variables : a[2] \in Neighbors(a[1])}

\* A worklist that gets the arcs back whether or not revise changed a domain.
requeue_always(rest, x, revised) == rest \cup {<<x, k>> : k \in Neighbors(x)}

\* ac3, after revise(x, y) left a non-empty domain: the worklist (the arc
\* just popped already taken out).
requeue(rest, x, revised) ==
    IF revised THEN rest \cup {<<x, k>> : k \in Neighbors(x)} ELSE rest

\* A completeness test that is satisfied one variable early.
assignment_complete_short(assignment) == Len(assignment) + 1 >= Cardinality(DOMAIN domains)

\* assignment_complete(assignment)
assignment_complete(assignment) == Len(assignment) = Cardinality(DOMAIN domains)

\* A pair test that accepts every pair.
pair_consistent_always(x, y) == "True"

\* A pair test that accepts exactly the pairs whose letters differ.
pair_consistent_inverted(x, y) ==
    IF x[2][Overlaps(x[1], y[1])[1] + 1] # y[2][Overlaps(x[1], y[1])[2] + 1] THEN "True" ELSE "False"

\* pair_consistent(x, y), x and y being (variable, word) pairs: "True",
\* "False", or "IndexError" when an offset is past the end of a word.
pair_consistent(x, y) ==
    LET x_idx == Overlaps(x[1], y[1])[1]
        y_idx == Overlaps(x[1], y[1])[2]
    IN  IF Len(x[2]) <= x_idx \/ Len(y[2]) <= y_idx THEN "IndexError"
        ELSE IF x[2][x_idx + 1] # y[2][y_idx + 1] THEN "False"
        ELSE "True"

\* consistent(assignment) from entry i on, used_words being the words seen:
\* the set of outcomes the loop can end with. The neighbours of a variable
\* are iterated in no fixed order, so when several neighbours stop the loop,
\* any of them may be the one that does.
RECURSIVE consistent_from(_, _, _)
consistent_from(assignment, i, used_words) ==
    IF i > Len(assignment) THEN {"True"}
    ELSE LET var == assignment[i].var
             word == assignment[i].word
             stops == {pair_consistent(<<var, word>>, <<var_2, WordOf(assignment, var_2)>>) :
                          var_2 \in Neighbors(var) \cap Keys(assignment)} \ {"True"}
         IN  IF word \in used_words THEN {"False"}
             ELSE IF Len(word) # var.length THEN {"False"}
             ELSE IF stops # {} THEN stops
             ELSE consistent_from(assignment, i + 1, used_words \cup {word})

\* A consistent that looks at the overlaps only.
consistent_pairs(assignment) ==
    IF \A i, j \in 1..Len(assignment) :
          assignment[j].var \in Neighbors(assignment[i].var) =>
              pair_consistent(<<assignment[i].var, assignment[i].word>>,
                              <<assignment[j].var, assignment[j].word>>) = "True"
    THEN {"True"} ELSE {"False"}

consistent(assignment) == consistent_from(assignment, 1, {})

\* A value ordering that keeps the iteration order.
order_domain_values_unsorted(var, iter) == iter

\* order_domain_values(var, assignment), iter being the order in which the
\* set self.domains[var] is iterated: a stable sort by count.
order_domain_values(var, iter) ==
    LET n == Len(iter)
        count(i) == Cardinality({neighbor \in Neighbors(var) : iter[i] \in Dom(neighbor)})
        before(j, i) == count(j) < count(i) \/ (count(j) = count(i) /\ j < i)
        rank(i) == 1 + Cardinality({j \in 1..n : before(j, i)})
    IN  [p \in 1..n |-> iter[CHOOSE i \in 1..n : rank(i) = p]]

\* A selection of the first unassigned variable met.
select_first(assignment, order) ==
    order[CHOOSE i \in 1..Len(order) :
              /\ order[i] \notin Keys(assignment)
              /\ \A j \in 1..(i - 1) : order[j] \in Keys(assignment)]

\* select_unassigned_variable(assignment), order being the order in which
\* the dict self.domains is iterated.
select_unassigned_variable(assignment, order) ==
    LET unassigned == {i \in 1..Len(order) : order[i] \notin Keys(assignment)}
        size(i) == Cardinality(Dom(order[i]))
        min_num == CHOOSE m \in {size(i) : i \in unassigned} :
                       \A i \in unassigned : m <= size(i)
        candidates == {i \in unassigned : size(i) = min_num}
        degree(i) == Cardinality(Neighbors(order[i]))
        \* the first candidate whose degree no earlier candidate reaches
        best == CHOOSE i \in candidates :
                    /\ \A j \in candidates : degree(j) <= degree(i)
                    /\ \A j \in candidates : j < i => degree(j) < degree(i)
    IN  order[best]


\* ----------------------------------------------------------------- frames

\* A frame of backtrack(): its argument and its locals. trial_order holds
\* the candidates not yet finished, the one being tried first; saved is
\* history, the store by value when domains_copy was taken.
Frame(assignment, var, trial_order) ==
    [assignment |-> assignment, domains_copy |-> domains, var |-> var,
     trial_order |-> trial_order, trial_assignment |-> <<>>, saved |-> Store]

Top == stack[Len(stack)]
Pop == SubSeq(stack, 1, Len(stack) - 1)

\* The innermost frame moved on to its next candidate.
NextCandidate == [stack EXCEPT ![Len(stack)].trial_order = Tail(@)]

\* A trial assignment that holds the new entry alone.
TrialAssignmentAlone == <<Entry(Top.var, Head(Top.trial_order))>>

\* trial_assignment = assignment.copy(); trial_assignment[var] = trial
TrialAssignment == Append(Top.assignment, Entry(Top.var, Head(Top.trial_order)))

\* ------------------------------------------------------------------- Init

\* A construction in which every variable holds the same set, not a copy.
InitRunShared ==
    /\ varOrder = <<>>
    /\ domains = [var \in variables |-> CHOOSE r \in variables : TRUE]
    /\ heap = [var \in variables |-> words]
    /\ pc = "node"
    /\ arcs = {}
    /\ ac3result = TRUE
    /\ stack = <<>>
    /\ arg = <<>>
    /\ retval = None
    /\ result = None
    /\ fix = NoFix

\* The state after CrosswordCreator(crossword): every variable holds its
\* own copy of the word list. The dict is built by iterating the set
\* crossword.variables, whose order the program does not fix: the order is
\* drawn where the program first depends on it (BacktrackSelect).
InitRun ==
    /\ varOrder = <<>>
    /\ domains = [var \in variables |-> var]
    /\ heap = [var \in variables |-> words]
    /\ pc = "node"
    /\ arcs = {}
    /\ ac3result = TRUE
    /\ stack = <<>>
    /\ arg = <<>>
    /\ retval = None
    /\ result = None
    /\ fix = NoFix

Init ==
    /\ variables \in Puzzles
    /\ words \in WordLists(variables)
    /\ run = 1
    /\ first = None
    /\ InitRun

\* ----------------------------------------------------------------- solve

\* solve: self.enforce_node_consistency()
EnforceNodeConsistency ==
    /\ pc = "node"
    /\ heap' = NodeConsistentHeap
    /\ pc' = "ac3_begin"
    /\ UNCHANGED <<variables, words, varOrder, domains, arcs, ac3result, stack,
                   arg, retval, result, fix, run, first>>

\* ac3(): arcs is None, begin with all arcs.
Ac3Begin ==
    /\ pc = "ac3_begin"
    /\ arcs' = AllArcs
    /\ pc' = "ac3_loop"
    /\ UNCHANGED <<variables, words, varOrder, domains, heap, ac3result, stack,
                   arg, retval, result, fix, run, first>>

\* ac3(): one turn of the while loop. arcs.pop() takes any arc.
Ac3Step ==
    /\ pc = "ac3_loop"
    /\ arcs # {}
    /\ \E arc \in arcs : \E o \in revise(arc[1], arc[2]) :
          /\ heap' = [heap EXCEPT ![domains[arc[1]]] = o.dom]
          /\ IF o.raised
             THEN pc' = "error" /\ arcs' = arcs \ {arc} /\ UNCHANGED ac3result
             ELSE IF Cardinality(o.dom) = 0
             THEN pc' = "ac3_ret" /\ ac3result' = FALSE /\ arcs' = {}
             ELSE /\ pc' = "ac3_loop"
                  /\ arcs' = requeue(arcs \ {arc}, arc[1], o.revision)
                  /\ UNCHANGED ac3result
    /\ UNCHANGED <<variables, words, varOrder, domains, stack, arg, retval,
                   result, fix, run, first>>

\* ac3(): the worklist is empty, return True.
Ac3Exit ==
    /\ pc = "ac3_loop"
    /\ arcs = {}
    /\ ac3result' = TRUE
    /\ pc' = "ac3_ret"
    /\ UNCHANGED <<variables, words, varOrder, domains, heap, arcs, stack, arg,
                   retval, result, fix, run, first>>

\* solve: ac3() returned, its value is dropped; return self.backtrack(dict())
SolveCallsBacktrack ==
    /\ pc = "ac3_ret"
    /\ stack = <<>>
    /\ arg' = <<>>
    /\ pc' = "backtrack"
    /\ fix' = IF ac3result THEN Some(Store) ELSE NoFix
    /\ UNCHANGED <<variables, words, varOrder, domains, heap, arcs, ac3result,
                   stack, retval, result, run, first>>

\* backtrack: self.ac3() == False: self.domains = domains_copy.copy(); continue
Ac3FailedRestore ==
    /\ pc = "ac3_ret"
    /\ stack # <<>>
    /\ ac3result = FALSE
    /\ domains' = Top.domains_copy
    /\ stack' = NextCandidate
    /\ pc' = "trial"
    /\ fix' = NoFix
    /\ UNCHANGED <<variables, words, varOrder, heap, arcs, ac3result, arg,
                   retval, result, run, first>>

\* backtrack: ac3 succeeded: self.backtrack(trial_assignment)
Recurse ==
    /\ pc = "ac3_ret"
    /\ stack # <<>>
    /\ ac3result = TRUE
    /\ arg' = Top.trial_assignment
    /\ pc' = "backtrack"
    /\ fix' = Some(Store)
    /\ UNCHANGED <<variables, words, varOrder, domains, heap, arcs, ac3result,
                   stack, retval, result, run, first>>

\* backtrack: the base case, return assignment
BacktrackComplete ==
    /\ pc = "backtrack"
    /\ assignment_complete(arg)
    /\ retval' = Some(arg)
    /\ pc' = "returned"
    /\ UNCHANGED <<variables, words, varOrder, domains, heap, arcs, ac3result,
                   stack, arg, result, fix, run, first>>

\* backtrack: copy the domains, select a variable, order its values. The
\* set self.domains[var] is iterated in any order.
BacktrackSelect ==
    /\ pc = "backtrack"
    /\ ~assignment_complete(arg)
    /\ \E order \in (IF varOrder = <<>> THEN Orders(variables) ELSE {varOrder}) :
          LET var == select_unassigned_variable(arg, order)
          IN  /\ varOrder' = order
              /\ \E iter \in Orders(Dom(var)) :
                    stack' = Append(stack, Frame(arg, var, order_domain_values(var, iter)))
    /\ pc' = "trial"
    /\ UNCHANGED <<variables, words, domains, heap, arcs, ac3result,
                   arg, retval, result, fix, run, first>>

\* backtrack: the for loop is over, return None
TrialExhausted ==
    /\ pc = "trial"
    /\ Top.trial_order = <<>>
    /\ stack' = Pop
    /\ retval' = None
    /\ pc' = "returned"
    /\ UNCHANGED <<variables, words, varOrder, domains, heap, arcs, ac3result,
                   arg, result, fix, run, first>>

\* backtrack: consistent(trial_assignment) is false (or raises): next value
TrialRejected ==
    /\ pc = "trial"
    /\ Top.trial_order # <<>>
    /\ \E o \in consistent(TrialAssignment) \ {"True"} :
          IF o = "IndexError"
          THEN pc' = "error" /\ UNCHANGED stack
          ELSE pc' = "trial" /\ stack' = NextCandidate
    /\ UNCHANGED <<variables, words, varOrder, domains, heap, arcs, ac3result,
                   arg, retval, result, fix, run, first>>

\* An accepted trial that writes its word into the domain as a singleton.
TrialAcceptedAssigning ==
    /\ pc = "trial"
    /\ Top.trial_order # <<>>
    /\ "True" \in consistent(TrialAssignment)
    /\ stack' = [stack EXCEPT ![Len(stack)].trial_assignment = TrialAssignment]
    /\ heap' = [heap EXCEPT ![domains[Top.var]] = {Head(Top.trial_order)}]
    /\ pc' = "ac3_begin"
    /\ UNCHANGED <<variables, words, varOrder, domains, arcs, ac3result,
                   arg, retval, result, fix, run, first>>

\* backtrack: consistent(trial_assignment) is true: call self.ac3()
TrialAccepted ==
    /\ pc = "trial"
    /\ Top.trial_order # <<>>
    /\ "True" \in consistent(TrialAssignment)
    /\ stack' = [stack EXCEPT ![Len(stack)].trial_assignment = TrialAssignment]
    /\ pc' = "ac3_begin"
    /\ UNCHANGED <<variables, words, varOrder, domains, heap, arcs, ac3result,
                   arg, retval, result, fix, run, first>>

\* A frame that goes on to its next candidate although the recursive call
\* returned an assignment.
ReturnFoundRetrying ==
    /\ pc = "returned"
    /\ stack # <<>>
    /\ retval.some
    /\ stack' = NextCandidate
    /\ pc' = "trial"
    /\ UNCHANGED <<variables, words, varOrder, domains, heap, arcs, ac3result,
                   arg, retval, result, fix, run, first>>

\* backtrack: the recursive call returned an assignment: return it
ReturnFound ==
    /\ pc = "returned"
    /\ stack # <<>>
    /\ retval.some
    /\ stack' = Pop
    /\ pc' = "returned"
    /\ UNCHANGED <<variables, words, varOrder, domains, heap, arcs, ac3result,
                   arg, retval, result, fix, run, first>>

\* backtrack: the recursive call returned None:
\* self.domains = domains_copy.copy(), and on to the next value
ReturnFailedRestore ==
    /\ pc = "returned"
    /\ stack # <<>>
    /\ ~retval.some
    /\ domains' = Top.domains_copy
    /\ stack' = NextCandidate
    /\ pc' = "trial"
    /\ fix' = NoFix
    /\ UNCHANGED <<variables, words, varOrder, heap, arcs, ac3result, arg,
                   retval, result, run, first>>

\* solve: the outermost backtrack() returned
SolveReturn ==
    /\ pc = "returned"
    /\ stack = <<>>
    /\ result' = retval
    /\ pc' = "done"
    /\ UNCHANGED <<variables, words, varOrder, domains, heap, arcs, ac3result,
                   stack, arg, retval, fix, run, first>>

Next ==
    \/ EnforceNodeConsistency
    \/ Ac3Begin
    \/ Ac3Step
    \/ Ac3Exit
    \/ SolveCallsBacktrack
    \/ Ac3FailedRestore
    \/ Recurse
    \/ BacktrackComplete
    \/ BacktrackSelect
    \/ TrialExhausted
    \/ TrialRejected
    \/ TrialAccepted
    \/ ReturnFound
    \/ ReturnFailedRestore
    \/ SolveReturn

Spec == Init /\ [][Next]_vars

\* solve() is sequential code: a step that can be taken is taken.
\* Three words per puzzle, enough for every path of solve(): the inputs of
\* the specifications that follow a run to its end or run solve() twice.
SmallVocabulary(puzzle) ==
    IF puzzle = PuzzleIsolated THEN {CAT, FROG, TOAD}
    ELSE IF puzzle = PuzzleBlock THEN {AAA, AB, BA}
    ELSE IF puzzle = PuzzleCross THEN {AAA, ABC, CBA}
    ELSE {ABC, CBA, XYZ}

InitSmall ==
    /\ variables \in Puzzles
    /\ words \in {ws \in WordLists(variables) : ws \subseteq SmallVocabulary(variables)}
    /\ run = 1
    /\ first = None
    /\ InitRun

\* solve() is one thread of control: a step that can be taken is taken.
FairSpec == InitSmall /\ [][Next]_vars /\ WF_vars(Next)

\* A second process solves the same puzzle with the same word list (a fresh
\* CrosswordCreator, fresh iteration orders); the first result is kept.
Rerun ==
    /\ pc = "done"
    /\ run = 1
    /\ UNCHANGED <<variables, words>>
    /\ run' = 2
    /\ first' = result
    /\ varOrder' = <<>>
    /\ domains' = [var \in variables |-> var]
    /\ heap' = [var \in variables |-> words]
    /\ pc' = "node"
    /\ arcs' = {}
    /\ ac3result' = TRUE
    /\ stack' = <<>>
    /\ arg' = <<>>
    /\ retval' = None
    /\ result' = None
    /\ fix' = NoFix

SpecRerun == InitSmall /\ [][Next \/ Rerun]_vars


\* ------------------------------------------------------------ properties

\* A complete assignment, as a function from the variables to words, that
\* satisfies every constraint: no word used twice, every word as long as
\* its variable, equal letters at every overlap.
Satisfying(f) ==
    /\ \A x, y \in variables : x # y => f[x] # f[y]
    /\ \A x \in variables : Len(f[x]) = x.length
    /\ \A x \in variables : \A y \in Neighbors(x) :
          f[x][Overlaps(x, y)[1] + 1] = f[y][Overlaps(x, y)[2] + 1]

\* The brute-force check: some complete assignment drawn from the word list
\* satisfies every constraint.
Solvable == \E f \in [variables -> words] : Satisfying(f)

\* The assignment a (a dict) as a function on its keys.
AsFunction(a) == [v \in Keys(a) |-> WordOf(a, v)]

Done == pc = "done"

\* The words of the word list that fit variable v.
Fitting(v) == {w \in words : Len(w) = v.length}

\* C1. Soundness: an assignment returned by solve() has one entry for every
\* variable, passes consistent(), uses no word twice, gives every variable
\* a word of its length and has equal letters at every overlap.
Soundness ==
    (Done /\ result.some) =>
        /\ Keys(result.val) = variables
        /\ Len(result.val) = Cardinality(variables)
        /\ consistent(result.val) = {"True"}
        /\ Satisfying(AsFunction(result.val))

\* solve() has returned an assignment for the puzzle of four slots.
SoundnessWitness == Done /\ result.some /\ Cardinality(variables) = 4

\* C2. Completeness: when some complete assignment drawn from the word list
\* satisfies the constraints, solve() returns an assignment, not None.
Completeness == (Done /\ Solvable) => result.some

\* solve() has returned for a solvable puzzle of three or more slots after
\* ac3 removed a word that fits its variable.
CompletenessWitness ==
    /\ Done
    /\ Solvable
    /\ Cardinality(variables) >= 3
    /\ \E v \in variables : Dom(v) # Fitting(v)

\* C3. No-solution signalling: when no complete assignment satisfies the
\* constraints, solve() returns None; no step of solve() raises an error;
\* the ACROSS/DOWN pair with the word list {ABC, XYZ} yields None.
NoSolutionIsNone ==
    /\ (Done /\ ~Solvable) => ~result.some
    /\ pc # "error"
    /\ (Done /\ variables = PuzzleCross /\ words = {ABC, XYZ}) => result = None

\* solve() has returned None for the ACROSS/DOWN pair with {ABC, XYZ}.
NoSolutionWitness ==
    Done /\ variables = PuzzleCross /\ words = {ABC, XYZ} /\ result = None

\* solve() has returned None for a puzzle one of whose domains was already
\* empty after node consistency.
NoSolutionEmptyDomainWitness ==
    Done /\ result = None /\ \E v \in variables : Fitting(v) = {}

\* C4. Determinism: a second solve() of the same puzzle and word list
\* returns what the first returned.
Determinism ==
    (run = 2 /\ Done) =>
        /\ result.some = first.some
        /\ AsMap(result.val) = AsMap(first.val)

\* Every word of domain(x) has a partner in domain(y) at the overlap, for
\* every ordered pair of neighbours.
ArcConsistent ==
    \A x \in variables : \A y \in Neighbors(x) : \A w \in Dom(x) :
        \E w2 \in Dom(y) : w[Overlaps(x, y)[1] + 1] = w2[Overlaps(x, y)[2] + 1]

\* C5. Arc consistency postcondition: when ac3() returns True the store is
\* arc consistent.
Ac3Postcondition == (pc = "ac3_ret" /\ ac3result) => ArcConsistent

\* Every word of every domain has its variable's length.
NodeConsistent == \A v \in variables : \A w \in Dom(v) : Len(w) = v.length

\* C6. Node consistency postcondition: from enforce_node_consistency() on,
\* through ac3, trials and restores, every word of every domain has its
\* variable's length.
NodeConsistencyKept == pc # "node" => NodeConsistent

\* A frame is back at its loop head after a trial that was accepted (so ac3
\* ran and a restore followed), for a word list with a word that does not
\* fit some variable.
NodeConsistencyWitness ==
    /\ pc = "trial"
    /\ Top.trial_assignment # <<>>
    /\ \E v \in variables : Fitting(v) # words

\* C7. Idempotence of ac3: an ac3() that starts on the store the previous
\* ac3() succeeded on (nothing written in between) returns True and leaves
\* the store as it was.
Ac3Idempotent ==
    (pc = "ac3_ret" /\ fix.some) => (ac3result /\ Store = fix.val)

\* C8. Scenario A: for the ACROSS/DOWN pair overlapping at (0,0) and the
\* word list {AAA, ABC, CBA}, solve() returns an assignment whose two words
\* start with the same letter.
ScenarioA ==
    (Done /\ variables = PuzzleCross /\ words = {AAA, ABC, CBA}) =>
        /\ result.some
        /\ \A e1, e2 \in {result.val[i] : i \in 1..Len(result.val)} :
              e1.word[1] = e2.word[1]

\* solve() has returned ACROSS = ABC, DOWN = AAA in scenario A.
ScenarioAWitness ==
    /\ Done
    /\ variables = PuzzleCross
    /\ words = {AAA, ABC, CBA}
    /\ result.some
    /\ AsMap(result.val) = {<<Var(0, 0, ACROSS, 3), ABC>>, <<Var(0, 0, DOWN, 3), AAA>>}

\* C9. Termination: every ac3() that starts returns, and solve() returns,
\* with None or with an assignment of every variable.
Termination ==
    /\ [](pc = "ac3_begin" => <>(pc = "ac3_ret"))
    /\ <>(Done /\ (result.some => Keys(result.val) = variables))

\* solve() has returned None for the puzzle of four slots after a search
\* over word lists that leave no domain empty at the start.
TerminationWitness ==
    /\ Done
    /\ ~result.some
    /\ varOrder # <<>>
    /\ Cardinality(variables) = 4
    /\ \A v \in variables : Fitting(v) # {}

\* C10. Snapshot fidelity: whenever a frame is at the head of its loop (its
\* snapshot just taken, or a trial rejected, or a failed trial restored),
\* the store is the one that frame's snapshot was taken of.
SnapshotFidelity == pc = "trial" => Store = Top.saved


\* C11. AC-3 propagation rule: a turn of ac3's loop in which revise(x, y)
\* removes a word of domain(x) and leaves it non-empty puts every arc (k, x),
\* k a neighbour of x other than y, on the worklist.
ReenqueueRule ==
    [][(pc = "ac3_loop" /\ pc' = "ac3_loop" /\ heap' # heap) =>
          \E x \in variables :
              /\ heap'[domains[x]] # heap[domains[x]]
              /\ \E y \in Neighbors(x) :
                    /\ <<x, y>> \in arcs
                    /\ \A k \in Neighbors(x) \ {y} : <<k, x>> \in arcs']_vars

\* revise(x, y) on a store given by value: the words left in store[x].
Revised(store, x, y) ==
    {item_x \in store[x] :
        item_x[Overlaps(x, y)[1] + 1] \in
            {item_y[Overlaps(x, y)[2] + 1] : item_y \in store[y]}}

\* ac3() on a node-consistent store given by value, the worklist taken in
\* one fixed order: the value returned and the store left.
RECURSIVE Ac3Run(_, _)
Ac3Run(store, worklist) ==
    IF worklist = {} THEN [ok |-> TRUE, store |-> store]
    ELSE LET arc == CHOOSE a \in worklist : TRUE
             dom == Revised(store, arc[1], arc[2])
             left == [store EXCEPT ![arc[1]] = dom]
         IN  IF dom = {} THEN [ok |-> FALSE, store |-> left]
             ELSE Ac3Run(left, requeue(worklist \ {arc}, arc[1], dom # store[arc[1]]))

\* The store enforce_node_consistency() leaves.
NodeConsistentStore == [v \in variables |-> Fitting(v)]

\* C12. Confluence of ac3: the ac3() of solve(), whatever order it takes the
\* arcs in, succeeds or fails as the run in the fixed order does, and when
\* it succeeds leaves the domains that run leaves.
Ac3Confluent ==
    (pc = "ac3_ret" /\ stack = <<>>) =>
        LET fixed == Ac3Run(NodeConsistentStore, AllArcs)
        IN  /\ ac3result = fixed.ok
            /\ ac3result => Store = fixed.store

\* C13. ac3 result meaning: ac3() returns True exactly when no domain is
\* empty at its return.
Ac3ResultMeaning ==
    pc = "ac3_ret" => (ac3result <=> \A v \in variables : Dom(v) # {})


\* C14. revise(x, y) result: for every arc (x, y) ac3 can take from its
\* worklist, revise leaves in domain(x) exactly its words whose letter at
\* x's offset occurs at y's offset in some word of domain(y), and returns
\* True iff it removed a word; it raises nothing.
ReviseResult ==
    pc = "ac3_loop" =>
        \A arc \in arcs :
            LET x == arc[1]
                y == arc[2]
                kept == {w \in Dom(x) :
                            \E w2 \in Dom(y) :
                                w[Overlaps(x, y)[1] + 1] = w2[Overlaps(x, y)[2] + 1]}
            IN  revise(x, y) = {[dom |-> kept, revision |-> kept # Dom(x), raised |-> FALSE]}

\* The ac3() of solve() is in its loop, a revise has removed some and not all
\* of the fitting words of a domain, and an arc into an empty domain waits.
ReviseResultWitness ==
    /\ pc = "ac3_loop"
    /\ stack = <<>>
    /\ \E v \in variables : Dom(v) # Fitting(v) /\ Dom(v) # {}
    /\ \E arc \in arcs : Dom(arc[2]) = {} /\ Dom(arc[1]) # {}

\* Every assignment of words of the word list to some of the variables, as
\* a dict in every insertion order.
PartialAssignments ==
    UNION {UNION {{[i \in 1..Len(order) |-> Entry(order[i], g[order[i]])] : g \in [S -> words]} :
                    order \in Orders(S)} : S \in SUBSET variables}

\* Every word of the assignment has its variable's length.
LengthsFit(a) == \A i \in 1..Len(a) : Len(a[i].word) = a[i].var.length

\* No word twice, and equal letters at the overlap of every two assigned
\* neighbours.
Compatible(a) ==
    /\ \A i, j \in 1..Len(a) : i # j => a[i].word # a[j].word
    /\ \A i, j \in 1..Len(a) :
          a[j].var \in Neighbors(a[i].var) =>
              a[i].word[Overlaps(a[i].var, a[j].var)[1] + 1]
                  = a[j].word[Overlaps(a[i].var, a[j].var)[2] + 1]

\* consistent(a) returns True when a is compatible and False when not.
Characterised(a) == consistent(a) = (IF Compatible(a) THEN {"True"} ELSE {"False"})

\* C15. consistent characterisation: for every partial or complete
\* assignment of words of the right lengths, and so for every trial
\* assignment of backtrack(), consistent returns True iff no word is used
\* twice and every two assigned neighbours agree at their overlap.
ConsistentCharacterised ==
    /\ pc = "node" => \A a \in PartialAssignments : LengthsFit(a) => Characterised(a)
    /\ (pc = "trial" /\ Top.trial_order # <<>>) =>
          (LengthsFit(TrialAssignment) /\ Characterised(TrialAssignment))

\* backtrack() has accepted a trial assignment of three variables.
ConsistentCharacterisedWitness ==
    /\ pc = "ac3_begin"
    /\ stack # <<>>
    /\ Len(Top.trial_assignment) = 3
    /\ Compatible(Top.trial_assignment)

\* C16. consistent rejects wrong lengths as a value: for every assignment
\* with a word whose length is not its variable's, in every insertion
\* order, consistent returns False and raises nothing.
ConsistentRejectsWrongLength ==
    pc = "node" =>
        \A a \in PartialAssignments : ~LengthsFit(a) => consistent(a) = {"False"}


\* The orders the dict self.domains can be iterated in.
DictOrders == IF varOrder = <<>> THEN Orders(variables) ELSE {varOrder}

\* An assignment whose keys are the variables of S.
AssignmentOn(S) ==
    LET order == CHOOSE o \in Orders(S) : TRUE
    IN  [i \in 1..Len(order) |-> Entry(order[i], CHOOSE w \in words : TRUE)]

\* v is unassigned in a, no unassigned variable has a smaller domain, and
\* none of those with a domain as small has more neighbours.
MrvDegree(v, a) ==
    LET unassigned == variables \ Keys(a)
    IN  /\ v \in unassigned
        /\ \A u \in unassigned : Cardinality(Dom(v)) <= Cardinality(Dom(u))
        /\ \A u \in unassigned :
              Cardinality(Dom(u)) = Cardinality(Dom(v)) =>
                  Cardinality(Neighbors(u)) <= Cardinality(Neighbors(v))

\* C17. Variable selection: on every store backtrack() selects on, for the
\* assignment it was given and for every other incomplete assignment,
\* select_unassigned_variable returns an unassigned variable of minimal
\* domain size and, among those, of maximal number of neighbours.
SelectsMrvDegree ==
    (pc = "backtrack" /\ ~assignment_complete(arg)) =>
        \A order \in DictOrders :
            /\ MrvDegree(select_unassigned_variable(arg, order), arg)
            /\ \A S \in (SUBSET variables) \ {variables} :
                  MrvDegree(select_unassigned_variable(AssignmentOn(S), order), AssignmentOn(S))

\* A frame has just selected its variable where another unassigned variable
\* had a domain as small and fewer neighbours, and a third a larger domain.
SelectsMrvDegreeWitness ==
    /\ pc = "trial"
    /\ Top.trial_assignment = <<>>
    /\ Store = Top.saved
    /\ Len(Top.trial_order) = Cardinality(Dom(Top.var))
    /\ \E u \in variables \ Keys(Top.assignment) :
          /\ Cardinality(Dom(u)) = Cardinality(Dom(Top.var))
          /\ Cardinality(Neighbors(u)) < Cardinality(Neighbors(Top.var))
    /\ \E u \in variables \ Keys(Top.assignment) :
          Cardinality(Dom(u)) > Cardinality(Dom(Top.var))

\* The number of var's neighbours whose domain holds word w.
Count(var, w) == Cardinality({neighbor \in Neighbors(var) : w \in Dom(neighbor)})

\* r holds exactly the words of iter, in ascending Count, words of equal
\* Count in the order iter has them in.
LcvOrdered(var, iter, r) ==
    LET pos(w) == CHOOSE i \in 1..Len(iter) : iter[i] = w
    IN  /\ Len(r) = Len(iter)
        /\ {r[i] : i \in 1..Len(r)} = {iter[i] : i \in 1..Len(iter)}
        /\ \A i, j \in 1..Len(r) :
              i < j => \/ Count(var, r[i]) < Count(var, r[j])
                       \/ /\ Count(var, r[i]) = Count(var, r[j])
                          /\ pos(r[i]) < pos(r[j])

RestoreStep == pc \in {"ac3_ret", "returned"} /\ pc' = "trial" /\ stack # <<>>

\* C19. Domain store evolution: every domain starts as the whole word list;
\* every step leaves every domain a subset of the word list, and a subset
\* of what it was unless the step is a restore, which leaves it as it was
\* when the frame's snapshot was taken.
DomainEvolution ==
    /\ \A v \in variables : Dom(v) = words
    /\ [][\A v \in variables :
            /\ heap'[domains'[v]] \subseteq words
            /\ \/ heap'[domains'[v]] \subseteq heap[domains[v]]
               \/ RestoreStep /\ heap'[domains'[v]] = Top.saved[v]]_vars

\* A trial has been undone by a restore after node consistency and ac3 had
\* each removed a word.
DomainEvolutionWitness ==
    /\ pc = "trial"
    /\ Top.trial_assignment # <<>>
    /\ ~fix.some
    /\ \E v \in variables : Fitting(v) # words
    /\ \E v \in variables : Dom(v) # Fitting(v)

\* Every frame's assignment is the trial assignment of the frame below it
\* (the empty dict for the first), and every trial assignment built is its
\* frame's assignment plus one entry for the frame's variable.
FramesLinked ==
    \A i \in 1..Len(stack) :
        /\ stack[i].assignment = (IF i = 1 THEN <<>> ELSE stack[i - 1].trial_assignment)
        /\ stack[i].var \notin Keys(stack[i].assignment)
        /\ stack[i].trial_assignment # <<>> =>
              \E w \in words :
                  stack[i].trial_assignment = Append(stack[i].assignment, Entry(stack[i].var, w))

\* C20. Assignment non-aliasing: no step changes the assignment a frame of
\* backtrack() was given; every trial assignment is the given one plus one
\* entry, and is what the recursive call is given.
AssignmentFrames ==
    /\ FramesLinked
    /\ [][/\ FramesLinked'
          /\ \A i \in 1..Len(stack) :
                i <= Len(stack') => stack'[i].assignment = stack[i].assignment
          /\ (pc' = "backtrack" /\ stack' # <<>>) => arg' = stack'[Len(stack')].trial_assignment]_vars

\* A second-level frame is trying another candidate after a trial of its
\* own failed and was undone.
AssignmentFramesWitness ==
    /\ pc = "ac3_begin"
    /\ Len(stack) = 2
    /\ ~fix.some
    /\ Len(Top.trial_assignment) = 2


\* C21. First solution wins: once a backtrack() call has returned an
\* assignment, every step is a return of that same assignment by the next
\* enclosing frame (no candidate tried, no ac3, store untouched) until
\* solve() returns it; a frame returns None only when no candidate is left,
\* and candidates leave a frame one at a time, from the front, only in the
\* innermost frame.
FirstSolutionWins ==
    [][/\ (pc = "returned" /\ retval.some) =>
             /\ Keys(retval.val) = variables
             /\ retval' = retval
             /\ heap' = heap /\ domains' = domains /\ arcs' = arcs
             /\ IF stack # <<>>
                THEN pc' = "returned" /\ stack' = Pop
                ELSE pc' = "done" /\ result' = retval
       /\ (pc # "returned" /\ pc' = "returned" /\ ~retval'.some) =>
             pc = "trial" /\ Top.trial_order = <<>> /\ stack' = Pop
       /\ \A i \in 1..Len(stack) :
             (i <= Len(stack') /\ stack'[i].trial_order # stack[i].trial_order) =>
                 /\ i = Len(stack)
                 /\ stack[i].trial_order # <<>>
                 /\ stack'[i].trial_order = Tail(stack[i].trial_order)
                 /\ ~(pc = "returned" /\ retval.some)]_vars

\* An assignment found two frames down is being returned through a frame
\* that still has candidates it has not tried.
FirstSolutionWinsWitness ==
    /\ pc = "returned"
    /\ retval.some
    /\ Len(stack) = 1
    /\ Len(Top.trial_order) >= 2
    /\ Cardinality(variables) >= 3

\* C22. Trial steps leave the store alone: a step taken at the head of a
\* frame's loop (a trial rejected by consistent(), a trial accepted, the
\* loop's end) changes no domain, and a rejected trial leaves the frame at
\* the head of its loop with no ac3 run and no restore; in every step that
\* changes a domain, node consistency or ac3 is what runs.
TrialLeavesStore ==
    [][/\ pc = "trial" =>
             /\ heap' = heap /\ domains' = domains
             /\ pc' \in {"trial", "ac3_begin", "returned"}
             /\ pc' = "trial" =>
                   /\ stack' = NextCandidate
                   /\ arcs' = arcs /\ ac3result' = ac3result /\ fix' = fix
       /\ (\E v \in variables : heap'[domains'[v]] # heap[domains[v]]) =>
             (pc \in {"node", "ac3_loop"} \/ RestoreStep)]_vars

\* A frame is at its loop head after consistent() rejected a candidate: no
\* trial of the frame was accepted yet, a candidate is gone, and the store
\* is the one the last ac3() left, the selected variable still holding two
\* words or more.
TrialLeavesStoreWitness ==
    /\ pc = "trial"
    /\ Top.trial_assignment = <<>>
    /\ Len(Top.trial_order) < Cardinality(Top.saved[Top.var])
    /\ fix.some
    /\ Store = fix.val
    /\ Cardinality(Dom(Top.var)) >= 2

\* C23. Recursion depth bound: the i-th frame of backtrack() holds an
\* assignment of i - 1 distinct puzzle variables, a call being entered one
\* of as many variables as there are frames, so there are never more
\* frames than variables; an assignment is complete exactly when it
\* assigns every variable.
DepthBound ==
    /\ Len(stack) <= Cardinality(variables)
    /\ \A i \in 1..Len(stack) :
          /\ Len(stack[i].assignment) = i - 1
          /\ Cardinality(Keys(stack[i].assignment)) = i - 1
          /\ Keys(stack[i].assignment) \subseteq variables
          /\ ~assignment_complete(stack[i].assignment)
    /\ pc = "backtrack" =>
          /\ Len(arg) = Len(stack)
          /\ Cardinality(Keys(arg)) = Len(arg)
          /\ Keys(arg) \subseteq variables
          /\ assignment_complete(arg) <=> Keys(arg) = variables

\* backtrack() is entered with a complete assignment below four frames.
DepthBoundWitness ==
    /\ pc = "backtrack"
    /\ Len(stack) = 4
    /\ Keys(arg) = variables


\* The two slots of scenario A.
SlotAcross == Var(0, 0, ACROSS, 3)
SlotDown == Var(0, 0, DOWN, 3)

\* The dicts that assign wa to the ACROSS slot and wd to the DOWN slot.
ScenarioADicts(wa, wd) ==
    {<<Entry(SlotAcross, wa), Entry(SlotDown, wd)>>,
     <<Entry(SlotDown, wd), Entry(SlotAcross, wa)>>}

InScenarioA == variables = PuzzleCross /\ words = {AAA, ABC, CBA}

\* C24, as stated. Scenario A validity example: ACROSS = AAA, DOWN = AAA is
\* accepted by consistent, and ACROSS = ABC, DOWN = AAA is rejected and is
\* never returned by solve().
ScenarioAExample ==
    InScenarioA =>
        /\ \A a \in ScenarioADicts(AAA, AAA) : consistent(a) = {"True"}
        /\ \A a \in ScenarioADicts(ABC, AAA) : consistent(a) = {"False"}
        /\ (Done /\ result.some) => result.val \notin ScenarioADicts(ABC, AAA)

\* C24, amended. In scenario A, ACROSS = AAA, DOWN = AAA is rejected by
\* consistent (a word used twice) and never returned; ACROSS = ABC,
\* DOWN = AAA is accepted by consistent; solve() returns ACROSS = ABC,
\* DOWN = AAA or ACROSS = AAA, DOWN = ABC.
ScenarioAExampleAmended ==
    InScenarioA =>
        /\ \A a \in ScenarioADicts(AAA, AAA) : consistent(a) = {"False"}
        /\ \A a \in ScenarioADicts(ABC, AAA) : consistent(a) = {"True"}
        /\ Done => /\ result.some
                   /\ result.val \in ScenarioADicts(ABC, AAA) \cup ScenarioADicts(AAA, ABC)

\* solve() has returned the dict that assigns ABC to the ACROSS slot and
\* AAA to the DOWN slot, which consistent accepts.
ScenarioAExampleWitness ==
    /\ InScenarioA
    /\ Done
    /\ result.some
    /\ result.val \in ScenarioADicts(ABC, AAA)
    /\ consistent(result.val) = {"True"}

\* C25. Pruning soundness: when an ac3() has returned, and when solve() has,
\* every word of every complete assignment that satisfies the constraints
\* is still in its variable's domain; so is every word of the assignment
\* solve() returns.
PruningSound ==
    /\ pc \in {"ac3_ret", "done"} =>
          \A f \in [variables -> words] :
              Satisfying(f) => \A v \in variables : f[v] \in Dom(v)
    /\ (Done /\ result.some) =>
          \A v \in variables : WordOf(result.val, v) \in Dom(v)

\* An ac3() inside backtrack() has returned True on a solvable puzzle of
\* three slots or more with a fitting word removed from a domain.
PruningSoundWitness ==
    /\ pc = "ac3_ret"
    /\ stack # <<>>
    /\ ac3result
    /\ Solvable
    /\ Cardinality(variables) >= 3
    /\ \E v \in variables : Dom(v) # Fitting(v)

\* No two variables hold the same set object.
DomainsApart == \A v, u \in variables : v # u => domains[v] # domains[u]

\* C26. revise frame: no two variables ever share a set, and a turn of
\* ac3's loop, which calls revise(x, y) for an arc of the worklist, changes
\* no domain but that of x.
ReviseFrame ==
    [][/\ DomainsApart
       /\ DomainsApart'
       /\ (pc = "ac3_loop" /\ arcs # {}) =>
             \E arc \in arcs :
                 \A v \in variables \ {arc[1]} :
                     heap'[domains'[v]] = heap[domains[v]]]_vars

\* ac3() is in its loop and has removed a word from one of two neighbours
\* of the same length, the other still holding every fitting word.
ReviseFrameWitness ==
    /\ pc = "ac3_loop"
    /\ \E x \in variables : \E y \in Neighbors(x) :
          /\ x.length = y.length
          /\ Dom(x) # Fitting(x)
          /\ Dom(y) = Fitting(y)
          /\ Dom(y) # {}

\* C27. Node consistency exactness: when enforce_node_consistency() has
\* run, every domain is exactly the set of the words of the word list that
\* have its variable's length, and in no later state would running it
\* again change a domain.
NodeConsistencyExact ==
    /\ (pc = "ac3_begin" /\ stack = <<>>) =>
          \A v \in variables : Dom(v) = {w \in words : Len(w) = v.length}
    /\ pc # "node" => NodeConsistentHeap = heap

\* enforce_node_consistency() has run and removed some and not all of the
\* words of a domain.
NodeConsistencyExactWitness ==
    /\ pc = "ac3_begin"
    /\ stack = <<>>
    /\ \E v \in variables : Dom(v) # words /\ Dom(v) # {}

=============================================================================
